---- MODULE Spec2Model ----
(***************************************************************************)
(* Submission-and-delivery pipeline of the CTPAT inspection application.   *)
(*                                                                         *)
(* Spec      : the Express/Mongo backend (routes/inspections.js,           *)
(*             models/Inspection.js, utils/validators.js, config/supabase) *)
(*             serving concurrent POST / and PUT /:id requests.  Every     *)
(*             handler is cut at its awaited database / storage calls.     *)
(* SpecLite  : the embedded Express/SQLite backend (nodejs/): the         *)
(*             inspections routes over the inspections table.              *)
(* SpecQueue : the same backend's email routes: the email_queue table and  *)
(*             overlapping processQueuedEmails runs, cut at the awaited    *)
(*             SMTP sends.                                                 *)
(* SpecLimiter : the in-memory RateLimiter middleware both backends mount, *)
(*             with a clock and a history of the admitted requests.        *)
(* SpecDispatch : the email routes with SMTP configured and a dispatcher   *)
(*             that runs processQueuedEmails again and again (fair).       *)
(* SpecAttach : the email routes with requests that carry a PDF.           *)
(* SpecConfigure : the credentials route next to the email routes.         *)
(* SpecBackend : the app's EmbeddedBackendService: startBackend cut at its *)
(*             awaited polls, stopBackend, cleanup.                        *)
(* SpecCredentials : the app's SecureCredentialsService: initialize and    *)
(*             clearAllCredentials cut at their awaited SecureStore calls, *)
(*             and the restart of the app.                                 *)
(* SpecView  : InspectionView with its auto-save timer and StorageService. *)
(***************************************************************************)
EXTENDS Integers, Sequences, FiniteSets, TLC

\* ------------------------------------------------------------------ bounds
MaxReq == 2          \* request handlers in flight at the same time
MaxArrivals == 3     \* requests received in one behaviour
MaxRecords == 2      \* documents the inspections collection may hold
MaxLiteRows == 2     \* rows ever inserted into the SQLite inspections table
MaxJobs == 2         \* rows ever inserted into email_queue
MaxRuns == 4         \* processQueuedEmails runs in flight at the same time
MaxLiteArrivals == 6 \* SQLite requests received in one behaviour
MaxDispatchers == 1  \* runs in flight of a dispatcher that is run for ever
maxAttempts == 3     \* waitForBackendReady(maxAttempts): polls before it gives up
MaxCallers == 2      \* startBackend invocations in flight at the same time
MaxCalls == 3        \* startBackend invocations in one behaviour
MaxInitializers == 2 \* initialize() invocations in flight at the same time
MaxCredCalls == 3    \* initialize() invocations in one behaviour
MaxForms == 2        \* different contents the user can give the form
MaxSubmits == 2      \* submitInspection calls in one behaviour
MaxDispatchArrivals == 4 \* create and send requests while it runs for ever
windowMs == 2        \* RateLimiter.windowMs, in clock ticks
maxRequests == 2     \* RateLimiter.maxRequests
MaxNow == 4          \* last clock tick of a rate-limiter behaviour
MaxServed == 6       \* requests the rate limiter handles in one behaviour

\* --------------------------------------------------- constants of the code
RetryCeiling == 3    \* if (email.retryCount < 3)
DefaultLimit == 5    \* processQueuedEmails(limit = 5)

\* --------------------------------------------------------------- the domain
Slots == 1..MaxReq
NoKey == "none"
Keys == {"k1"}
Payloads == {"p1", "p2"}
NoFile == "none"
FileNames == {"f1"}
NoStatus == "none"
Statuses == {"draft", "submitted", "archived"}
LiteIds == 1..MaxLiteRows
Runs == 1..MaxRuns
Dispatchers == 1..MaxDispatchers
Callers == 1..MaxCallers
Initializers == 1..MaxInitializers
Forms == 1..MaxForms
Limits == {1, DefaultLimit}
ClientKeys == {"ip1", "ip2"}
Checklists == {<<>>, <<TRUE>>, <<TRUE, FALSE>>}

VARIABLES
  inspections,   \* Mongo collection: sequence of documents, inspectionId = index
  storage,       \* Supabase bucket: the set of stored file paths
  clock,         \* Date.now()
  arrivals,      \* requests received so far
  req,           \* per handler: the request, its position and its local state
  last,          \* the request answered last, with its response
  liteInspections,   \* SQLite inspections table: inspectionId -> row
  liteCreated,       \* rows inserted so far (a fresh uuid per insert)
  emailQueue,        \* SQLite email_queue table in insertion order, emailId = index
  run,               \* per processQueuedEmails run: its snapshot and counters
  isConfigured,      \* EmailService.isConfigured, fixed by the constructor
  hasMetadataColumn, \* does the opened file's email_queue table have `metadata`
  selections,        \* history: per job, the runs whose snapshot held it
  deliveries,        \* history: per job, the queued sends SMTP accepted
  mailed,            \* history: per job, the attachments of its accepted mail
  liteLast,          \* the SQLite request answered last, with its response
  liteArrivals,      \* SQLite requests received so far
  requests,          \* RateLimiter.requests: client key -> admitted times kept
  dateNow,           \* Date.now() as the limiter reads it
  admitted,          \* history: client key -> every time a request was admitted
  served,            \* requests the limiter has handled so far
  limiterLast,       \* the request the limiter handled last, with its outcome
  smtpEnv,           \* process.env.SMTP_HOST, SMTP_USER and SMTP_PASSWORD are set
  storedCredentials, \* routes/credentials.js storedCredentials: pushed or not
  isNativeModuleAvailable, \* require('nodejs-mobile-react-native') succeeded
  backendStarted,    \* EmbeddedBackendService.backendStarted
  healthCheckInterval,   \* the handle the service holds, 0 for null
  appStateSubscription,  \* the subscription the service holds, 0 for null
  intervals,         \* handles of the setInterval timers that are active
  listeners,         \* handles of the AppState listeners that are attached
  handles,           \* handles given out so far
  spawns,            \* nodejsMobile.start calls since the last stop
  restarts,          \* processMetrics.restarts
  call,              \* per startBackend invocation: its position and its polls
  calls,             \* startBackend invocations so far
  backendLast,       \* the service call that ended last, with its outcome
  secureStoreJwt,    \* SecureStore item ctpat_jwt_secret, 0 when there is none
  jwtSecret,         \* SecureCredentialsService.jwtSecret, 0 for null
  initialized,       \* SecureCredentialsService.initialized
  generated,         \* generateUUID() calls so far; each returns a new secret
  init,              \* per initialize() invocation: its position and its secret
  credCalls,         \* initialize() invocations so far
  clearing,          \* a clearAllCredentials() call is awaiting its deletes
  clearedSince,      \* clearAllCredentials ran since the item was written
  formData,          \* InspectionView state: 0 the defaults, else what was typed
  currentInspection, \* AsyncStorage item ctpat_current_inspection, or NoDraft
  inspectionHistory, \* AsyncStorage item ctpat_inspection_history
  submit,            \* the submitInspection call: its position and its closure
  submits,           \* submitInspection calls so far
  awaitingEdit       \* an inspection was completed and no edit was made since

mongoVars == <<inspections, storage, clock, arrivals, req, last>>
liteVars == <<liteInspections, liteCreated, emailQueue, run, isConfigured,
              hasMetadataColumn, selections, deliveries, mailed, liteLast,
              liteArrivals>>
limiterVars == <<requests, dateNow, admitted, served, limiterLast>>
envVars == <<smtpEnv, storedCredentials>>
backendVars == <<isNativeModuleAvailable, backendStarted, healthCheckInterval,
                 appStateSubscription, intervals, listeners, handles, spawns,
                 restarts, call, calls, backendLast>>
credVars == <<secureStoreJwt, jwtSecret, initialized, generated, init,
              credCalls, clearing, clearedSince>>
viewVars == <<formData, currentInspection, inspectionHistory, submit, submits,
              awaitingEdit>>
appVars == <<backendVars, credVars, viewVars>>
vars == <<inspections, storage, clock, arrivals, req, last,
          liteInspections, liteCreated, emailQueue, run, isConfigured,
          hasMetadataColumn, selections, deliveries, mailed, liteLast,
              liteArrivals,
          requests, dateNow, admitted, served, limiterLast,
          smtpEnv, storedCredentials,
          isNativeModuleAvailable, backendStarted, healthCheckInterval,
          appStateSubscription, intervals, listeners, handles, spawns,
          restarts, call, calls, backendLast,
          secureStoreJwt, jwtSecret, initialized, generated, init,
          credCalls, clearing, clearedSince,
          formData, currentInspection, inspectionHistory, submit, submits,
          awaitingEdit>>

NoResp == [code |-> 0, kind |-> "none", id |-> 0, from |-> "none", to |-> "none"]
NoDoc == [inspectionId |-> 0, idempotencyKey |-> NoKey, payload |-> "none",
          status |-> NoStatus, completedAt |-> 0, auditLog |-> <<>>,
          pdfStoragePath |-> NoFile, v |-> 0]
IdleReq == [op |-> "idle", pc |-> "idle", key |-> NoKey, payload |-> "none",
            status |-> NoStatus, pdf |-> NoFile, complete |-> TRUE, id |-> 0,
            doc |-> NoDoc, pushed |-> <<>>, pdfPath |-> NoFile]
NoLast == [op |-> "idle", key |-> NoKey, payload |-> "none", status |-> NoStatus,
           id |-> 0, was |-> NoStatus, resp |-> NoResp]

IdleRun == [pc |-> "idle", batch |-> <<>>, selected |-> 0, sent |-> 0, failed |-> 0]
IdleInit == [pc |-> "idle", secret |-> 0]
DefaultForm == 0     \* DEFAULT_INSPECTION_POINTS and DEFAULT_FORM_DATA
NoDraft == -1        \* AsyncStorage.getItem gives null
IdleSubmit == [pc |-> "idle", form |-> DefaultForm]
IdleCall == [pc |-> "idle", polls |-> 0]
NoBackendLast == [op |-> "none", result |-> "none", polls |-> 0]
NoLiteLast == [op |-> "none", id |-> 0, status |-> NoStatus, was |-> NoStatus,
               code |-> 0, kind |-> "none", sent |-> 0, failed |-> 0,
               pending |-> 0, total |-> 0]

\* ------------------------------------------------- helpers of the Mongo API

\* validateRequest(inspectionSchema): Joi validation with stripUnknown.  The
\* schema declares no `status` key, so the validated body never carries one.
ValidatedStatus(status) == NoStatus

validTransitions == [draft |-> {"submitted", "archived"},
                     submitted |-> {"archived"},
                     archived |-> {}]

validateStatusTransition(currentStatus, newStatus) ==
  IF currentStatus = newStatus
    THEN TRUE
    ELSE newStatus \in validTransitions[currentStatus]

\* faulty variant: the duplicate lookup never finds the stored document
checkDuplicateSubmissionMiss(idempotencyKey) == 0

\* faulty variant: the lookup runs without the `if (!idempotencyKey)` guard and
\* findOne({ idempotencyKey: undefined }) matches a document without the field
checkDuplicateSubmissionAnyKey(idempotencyKey) ==
  LET hits == {i \in DOMAIN inspections :
                 inspections[i].idempotencyKey = idempotencyKey}
  IN IF hits = {} THEN 0 ELSE CHOOSE i \in hits : \A j \in hits : i <= j

\* Inspection.findOne({ idempotencyKey }): the id of a stored document, 0 for null
checkDuplicateSubmission(idempotencyKey) ==
  IF idempotencyKey = NoKey
    THEN 0
    ELSE LET hits == {i \in DOMAIN inspections :
                        inspections[i].idempotencyKey = idempotencyKey}
         IN IF hits = {} THEN 0 ELSE CHOOSE i \in hits : \A j \in hits : i <= j

\* faulty variant: idempotencyKey declared without `unique`
UniqueIndexNotEnforced(idempotencyKey) == FALSE

\* unique sparse index on idempotencyKey: would inserting this key collide?
UniqueIndexViolated(idempotencyKey) ==
  /\ idempotencyKey # NoKey
  /\ \E i \in DOMAIN inspections : inspections[i].idempotencyKey = idempotencyKey

\* faulty variant: the hook stamps completedAt on every save of a submitted document
preSaveRestamp(doc, isNew, now) ==
  [doc EXCEPT
     !.completedAt = IF doc.status = "submitted" THEN now ELSE @,
     !.auditLog = Append(@, [action |-> IF isNew THEN "created" ELSE "modified",
                             timestamp |-> now,
                             status |-> doc.status])]

\* faulty variant: the hook assigns a fresh auditLog instead of pushing onto it
preSaveReplaceLog(doc, isNew, now) ==
  [doc EXCEPT
     !.completedAt = IF doc.status = "submitted" /\ doc.completedAt = 0
                       THEN now ELSE @,
     !.auditLog = <<[action |-> IF isNew THEN "created" ELSE "modified",
                     timestamp |-> now,
                     status |-> doc.status]>>]

\* inspectionSchema.pre('save')
preSave(doc, isNew, now) ==
  [doc EXCEPT
     !.completedAt = IF doc.status = "submitted" /\ doc.completedAt = 0
                       THEN now ELSE @,
     !.auditLog = Append(@, [action |-> IF isNew THEN "created" ELSE "modified",
                             timestamp |-> now,
                             status |-> doc.status])]

IsPrefix(s, t) == Len(s) <= Len(t) /\ SubSeq(t, 1, Len(s)) = s

\* document.save() of a loaded document: $set of the modified paths, $push of
\* the entries pushed onto auditLog since it was loaded ($set of the whole
\* array when it was replaced), $inc of the version key
SaveDelta(stored, loaded, saved) ==
  [stored EXCEPT
     !.v = @ + 1,
     !.payload = IF saved.payload # loaded.payload THEN saved.payload ELSE @,
     !.status = IF saved.status # loaded.status THEN saved.status ELSE @,
     !.completedAt = IF saved.completedAt # loaded.completedAt
                       THEN saved.completedAt ELSE @,
     !.pdfStoragePath = IF saved.pdfStoragePath # loaded.pdfStoragePath
                          THEN saved.pdfStoragePath ELSE @,
     !.auditLog = IF IsPrefix(loaded.auditLog, saved.auditLog)
                    THEN @ \o SubSeq(saved.auditLog, Len(loaded.auditLog) + 1,
                                     Len(saved.auditLog))
                    ELSE saved.auditLog]

\* Object.assign sets the inspectionPoints array, so save() sends the update with
\* the version key it loaded: a document saved meanwhile makes it a VersionError
VersionConflict(stored, loaded) == stored.v # loaded.v

\* uploadPDFToStorage: the path the file is stored under
UploadPath(fileName) == fileName

Resp(code, kind, id) == [NoResp EXCEPT !.code = code, !.kind = kind, !.id = id]

\* APIError(`Invalid status transition from '${from}' to '${to}'`, 400)
TransitionError(id, from, to) ==
  [code |-> 400, kind |-> "transition", id |-> id, from |-> from, to |-> to]

\* a request is served by the first idle handler (handlers are interchangeable)
Free(r) == req[r].pc = "idle" /\ \A q \in Slots : q < r => req[q].pc # "idle"

PostsInFlight == Cardinality({r \in Slots : req[r].op = "post"})

\* the handler keeps running: only its own state changes
Continue(r, request) ==
  /\ req' = [req EXCEPT ![r] = request]
  /\ last' = last
  /\ UNCHANGED <<liteVars, limiterVars, envVars, appVars>>

\* res.status(code).json(...) or a thrown error: the handler ends
Finish(r, request, resp) ==
  /\ req' = [req EXCEPT ![r] = IdleReq]
  /\ last' = [op |-> request.op, key |-> request.key,
              payload |-> request.payload, status |-> request.status,
              id |-> request.id, was |-> request.doc.status, resp |-> resp]
  /\ UNCHANGED <<liteVars, limiterVars, envVars, appVars>>

\* -------------------------------------------------- POST /api/inspections

\* validateRequest middleware rejects the body
PostInvalid(r) ==
  /\ Free(r)
  /\ arrivals < MaxArrivals
  /\ \E key \in Keys \cup {NoKey} :
       Finish(r, [IdleReq EXCEPT !.op = "post", !.key = key, !.complete = FALSE],
              Resp(400, "validation", 0))
  /\ arrivals' = arrivals + 1
  /\ UNCHANGED <<inspections, storage, clock>>

\* a valid body: the handler up to the awaited duplicate lookup
PostArrive(r) ==
  /\ Free(r)
  /\ arrivals < MaxArrivals
  /\ Len(inspections) + PostsInFlight < MaxRecords
  /\ \E key \in Keys \cup {NoKey}, payload \in Payloads,
        pdf \in FileNames \cup {NoFile} :
       LET request == [IdleReq EXCEPT !.op = "post", !.key = key,
                         !.payload = payload, !.pdf = pdf]
           existingInspection == checkDuplicateSubmission(key)
       IN IF existingInspection # 0
            THEN Finish(r, request, Resp(200, "duplicate", existingInspection))
            ELSE Continue(r, [request EXCEPT
                                !.pc = IF pdf # NoFile THEN "upload" ELSE "save"])
  /\ arrivals' = arrivals + 1
  /\ UNCHANGED <<inspections, storage, clock>>

\* await uploadPDFToStorage(...): upsert is false, the network may fail
PostUpload(r) ==
  /\ req[r].op = "post" /\ req[r].pc = "upload"
  /\ \/ /\ UploadPath(req[r].pdf) \notin storage
        /\ storage' = storage \cup {UploadPath(req[r].pdf)}
        /\ Continue(r, [req[r] EXCEPT !.pdfPath = UploadPath(req[r].pdf),
                                      !.pc = "save"])
     \/ /\ storage' = storage
        /\ Finish(r, req[r], Resp(500, "upload", 0))
  /\ UNCHANGED <<inspections, clock, arrivals>>

\* new Inspection({...}) and await inspection.save()
PostSave(r) ==
  /\ req[r].op = "post" /\ req[r].pc = "save"
  /\ LET id == Len(inspections) + 1
         doc == [inspectionId |-> id, idempotencyKey |-> req[r].key,
                 payload |-> req[r].payload, status |-> "submitted",
                 completedAt |-> clock, auditLog |-> <<>>,
                 pdfStoragePath |-> req[r].pdfPath, v |-> 0]
     IN IF UniqueIndexViolated(req[r].key)
          THEN /\ inspections' = inspections
               /\ Finish(r, req[r], Resp(500, "dupkey", 0))
          ELSE /\ inspections' = Append(inspections, preSave(doc, TRUE, clock))
               /\ Finish(r, req[r], Resp(201, "created", id))
  /\ clock' = clock + 1
  /\ UNCHANGED <<storage, arrivals>>

\* ----------------------------------------------- PUT /api/inspections/:id

\* validateRequest middleware rejects the body
PutInvalid(r) ==
  /\ Free(r)
  /\ arrivals < MaxArrivals
  /\ \E id \in 1..MaxRecords, status \in Statuses \cup {NoStatus} :
       Finish(r, [IdleReq EXCEPT !.op = "put", !.id = id, !.status = status,
                                 !.complete = FALSE],
              Resp(400, "validation", 0))
  /\ arrivals' = arrivals + 1
  /\ UNCHANGED <<inspections, storage, clock>>

\* a valid body: findOne and the status-transition check.  The body resends the
\* stored vehicle fields; what varies is the requested status and the PDF.
PutArrive(r) ==
  /\ Free(r)
  /\ arrivals < MaxArrivals
  /\ \E id \in 1..MaxRecords, status \in Statuses \cup {NoStatus},
        pdf \in FileNames \cup {NoFile} :
       LET request == [IdleReq EXCEPT !.op = "put", !.id = id,
                         !.status = status, !.pdf = pdf]
           newStatus == ValidatedStatus(status)
       IN IF id \notin DOMAIN inspections
            THEN Finish(r, request, Resp(404, "notfound", 0))
          ELSE IF /\ newStatus # NoStatus
                  /\ newStatus # inspections[id].status
                  /\ ~validateStatusTransition(inspections[id].status, newStatus)
            THEN Finish(r, [request EXCEPT !.doc = inspections[id]],
                        TransitionError(id, inspections[id].status, newStatus))
          ELSE Continue(r, [request EXCEPT
                 !.doc = inspections[id],
                 !.payload = inspections[id].payload,
                 !.pc = IF pdf = NoFile THEN "save"
                        ELSE IF inspections[id].pdfStoragePath # NoFile
                               THEN "deleteOld" ELSE "upload"])
  /\ arrivals' = arrivals + 1
  /\ UNCHANGED <<inspections, storage, clock>>

\* the catch that skips the rest of the handler although the storage call threw
PdfUpdateFailureIgnored(r) ==
  Continue(r, [req[r] EXCEPT !.pc = "save"])

\* catch (error) { throw new APIError('Failed to update PDF file', 500) }:
\* one catch covers the delete of the old PDF and the upload of the new one
PdfUpdateFailed(r) ==
  Finish(r, req[r], Resp(500, "upload", req[r].id))

\* await deletePDFFromStorage(inspection.pdfStoragePath)
PutDeleteOld(r) ==
  /\ req[r].op = "put" /\ req[r].pc = "deleteOld"
  /\ \/ /\ storage' = storage \ {req[r].doc.pdfStoragePath}
        /\ Continue(r, [req[r] EXCEPT !.pc = "upload"])
     \/ /\ storage' = storage
        /\ PdfUpdateFailed(r)
  /\ UNCHANGED <<inspections, clock, arrivals>>

\* await uploadPDFToStorage(...), then auditLog.push({ action: 'pdf_updated' })
PutUpload(r) ==
  /\ req[r].op = "put" /\ req[r].pc = "upload"
  /\ \/ /\ UploadPath(req[r].pdf) \notin storage
        /\ storage' = storage \cup {UploadPath(req[r].pdf)}
        /\ Continue(r, [req[r] EXCEPT
                          !.pdfPath = UploadPath(req[r].pdf),
                          !.pushed = Append(@, [action |-> "pdf_updated",
                                                timestamp |-> clock,
                                                status |-> NoStatus]),
                          !.pc = "save"])
     \/ /\ storage' = storage
        /\ PdfUpdateFailed(r)
  /\ UNCHANGED <<inspections, clock, arrivals>>

\* Object.assign(inspection, inspectionData) and await inspection.save()
PutSave(r) ==
  /\ req[r].op = "put" /\ req[r].pc = "save"
  /\ LET loaded == req[r].doc
         newStatus == ValidatedStatus(req[r].status)
         assigned == [loaded EXCEPT
                        !.payload = req[r].payload,
                        !.status = IF newStatus # NoStatus THEN newStatus ELSE @,
                        !.pdfStoragePath = IF req[r].pdfPath # NoFile
                                             THEN req[r].pdfPath ELSE @,
                        !.auditLog = @ \o req[r].pushed]
         saved == preSave(assigned, FALSE, clock)
     IN IF VersionConflict(inspections[req[r].id], loaded)
          THEN /\ inspections' = inspections
               /\ Finish(r, req[r], Resp(500, "version", req[r].id))
          ELSE /\ inspections' = [inspections EXCEPT ![req[r].id] =
                                    SaveDelta(@, loaded, saved)]
               /\ Finish(r, req[r], Resp(200, "updated", req[r].id))
  /\ clock' = clock + 1
  /\ UNCHANGED <<storage, arrivals>>

\* ------------------------------------------------------- the Mongo backend

\* the collection, the bucket and the handlers when the server starts
MongoInit ==
  /\ inspections = <<>>
  /\ storage = {}
  /\ clock = 1
  /\ arrivals = 0
  /\ req = [r \in Slots |-> IdleReq]
  /\ last = NoLast

\* initializeDatabase() on a new file, new EmailService(): nothing stored, no
\* run in flight; the two flags are what the environment makes them
LiteStart(configured, metadataColumn) ==
  /\ liteInspections = <<>>
  /\ liteCreated = 0
  /\ emailQueue = <<>>
  /\ run = [w \in Runs |-> IdleRun]
  /\ isConfigured = configured
  /\ hasMetadataColumn = metadataColumn
  /\ selections = [j \in 1..MaxJobs |-> 0]
  /\ deliveries = [j \in 1..MaxJobs |-> 0]
  /\ mailed = [j \in 1..MaxJobs |-> "none"]
  /\ liteLast = NoLiteLast
  /\ liteArrivals = 0
  /\ smtpEnv = configured
  /\ storedCredentials = FALSE

\* new RateLimiter(options): an empty Map
LimiterInit ==
  /\ requests = [key \in ClientKeys |-> <<>>]
  /\ dateNow = 0
  /\ admitted = [key \in ClientKeys |-> <<>>]
  /\ served = 0
  /\ limiterLast = [key |-> "none", code |-> 0]

\* the instance getInstance() builds, on a build with or without the module
BackendStart(available) ==
  /\ isNativeModuleAvailable = available
  /\ backendStarted = FALSE
  /\ healthCheckInterval = 0
  /\ appStateSubscription = 0
  /\ intervals = {}
  /\ listeners = {}
  /\ handles = 0
  /\ spawns = 0
  /\ restarts = 0
  /\ call = [c \in Callers |-> IdleCall]
  /\ calls = 0
  /\ backendLast = NoBackendLast

\* the app when it is launched
\* a first launch: an empty SecureStore and a new SecureCredentialsService
CredStart ==
  /\ secureStoreJwt = 0
  /\ jwtSecret = 0
  /\ initialized = FALSE
  /\ generated = 0
  /\ init = [i \in Initializers |-> IdleInit]
  /\ credCalls = 0
  /\ clearing = FALSE
  /\ clearedSince = FALSE

\* InspectionView mounted on an empty AsyncStorage
ViewStart ==
  /\ formData = DefaultForm
  /\ currentInspection = NoDraft
  /\ inspectionHistory = <<>>
  /\ submit = IdleSubmit
  /\ submits = 0
  /\ awaitingEdit = FALSE

AppInit ==
  /\ BackendStart(TRUE)
  /\ CredStart
  /\ ViewStart

Init == MongoInit /\ LiteStart(FALSE, FALSE) /\ LimiterInit /\ AppInit

Next ==
  \E r \in Slots :
    \/ PostInvalid(r)
    \/ PostArrive(r)
    \/ PostUpload(r)
    \/ PostSave(r)
    \/ PutInvalid(r)
    \/ PutArrive(r)
    \/ PutDeleteOld(r)
    \/ PutUpload(r)
    \/ PutSave(r)

Spec == Init /\ [][Next]_vars

\* ====================================================== the SQLite backend

\* what the completionPercentage column holds after NaN was bound to it: NULL
SqlNull == -1

\* Math.round(checked / length * 100); 0 / 0 is NaN, which is stored as NULL
Percentage(inspectionPoints) ==
  LET n == Len(inspectionPoints)
      checked == Cardinality({i \in DOMAIN inspectionPoints : inspectionPoints[i]})
  IN IF n = 0 THEN SqlNull ELSE (200 * checked + n) \div (2 * n)

LiteResp(op, code, kind) ==
  [NoLiteLast EXCEPT !.op = op, !.code = code, !.kind = kind]

\* faulty variant: foreign keys not enforced on delete
NeverReferenced(inspectionId) == FALSE

\* FOREIGN KEY(inspectionId) REFERENCES inspections, foreign_keys = ON: a row
\* some job references cannot be deleted
Referenced(inspectionId) ==
  \E j \in DOMAIN emailQueue : emailQueue[j].inspectionId = inspectionId

RECURSIVE Ascending(_)
Ascending(S) ==
  IF S = {}
    THEN <<>>
    ELSE LET m == CHOOSE x \in S : \A y \in S : x <= y
         IN <<m>> \o Ascending(S \ {m})

RECURSIVE Descending(_)
Descending(S) ==
  IF S = {}
    THEN <<>>
    ELSE LET m == CHOOSE x \in S : \A y \in S : x >= y
         IN <<m>> \o Descending(S \ {m})

\* faulty variant: the SELECT filters on a status no job ever has
getNoPendingEmails(limit) == <<>>

\* faulty variant: ORDER BY createdAt DESC
getNewestPendingEmails(limit) ==
  LET ids == Descending({j \in DOMAIN emailQueue : emailQueue[j].status = "pending"})
      n == IF limit < Len(ids) THEN limit ELSE Len(ids)
  IN [k \in 1..n |-> [emailId |-> ids[k],
                      retryCount |-> emailQueue[ids[k]].retryCount,
                      metadata |-> emailQueue[ids[k]].metadata]]

\* SELECT * FROM email_queue WHERE status = 'pending' ORDER BY createdAt ASC LIMIT ?
getPendingEmails(limit) ==
  LET ids == Ascending({j \in DOMAIN emailQueue : emailQueue[j].status = "pending"})
      n == IF limit < Len(ids) THEN limit ELSE Len(ids)
  IN [k \in 1..n |-> [emailId |-> ids[k],
                      retryCount |-> emailQueue[ids[k]].retryCount,
                      metadata |-> emailQueue[ids[k]].metadata]]

\* UPDATE email_queue SET status = 'sent', sentAt = ? WHERE emailId = ?
markSent(queue, emailId) ==
  IF emailId \in DOMAIN queue
    THEN [queue EXCEPT ![emailId].status = "sent"]
    ELSE queue

\* faulty variant: the UPDATE leaves retryCount alone
markFailedNoCount(queue, emailId, errorMessage) ==
  IF emailId \in DOMAIN queue
    THEN [queue EXCEPT ![emailId].status = "failed",
                       ![emailId].error = errorMessage]
    ELSE queue

\* UPDATE email_queue SET status = 'failed', error = ?, retryCount = retryCount + 1
markFailed(queue, emailId, errorMessage) ==
  IF emailId \in DOMAIN queue
    THEN [queue EXCEPT ![emailId].status = "failed",
                       ![emailId].error = errorMessage,
                       ![emailId].retryCount = @ + 1]
    ELSE queue

\* faulty variant: a rejected send leaves the loop
RemainingUntilFailure(batch, ok) == IF ok THEN Tail(batch) ELSE <<>>

\* for (const email of pendingEmails) { try { ... } catch { ... } }: the emails
\* the loop still has to handle after this one, whatever its outcome
Remaining(batch, ok) == Tail(batch)

\* faulty variant: the service reports itself configured whatever it was given
AlwaysConfigured == TRUE

\* EmailService.isSmtpConfigured()
isSmtpConfigured == isConfigured

\* a run is served by the first idle worker (runs are interchangeable)
FreeRun(w) == run[w].pc = "idle" /\ \A q \in Runs : q < w => run[q].pc # "idle"

\* ---------------------------------------------------- /api/inspections

\* POST /: inspectionSchema.validate(req.body) reports an error
LiteCreateInvalid ==
  /\ liteArrivals < MaxLiteArrivals
  /\ liteArrivals' = liteArrivals + 1
  /\ liteLast' = LiteResp("create", 400, "validation")
  /\ UNCHANGED <<liteInspections, liteCreated, emailQueue, run, isConfigured,
                 hasMetadataColumn, selections, deliveries, mailed>>
  /\ UNCHANGED <<mongoVars, limiterVars, envVars, appVars>>

\* POST /: INSERT INTO inspections (..., status 'draft', ...)
LiteCreate(checklists) ==
  /\ liteArrivals < MaxLiteArrivals
  /\ liteArrivals' = liteArrivals + 1
  /\ liteCreated < MaxLiteRows
  /\ \E inspectionPoints \in checklists :
       LET inspectionId == liteCreated + 1
           row == [status |-> "draft",
                   inspectionPoints |-> inspectionPoints,
                   completionPercentage |-> Percentage(inspectionPoints)]
       IN /\ liteInspections' =
               [i \in DOMAIN liteInspections \cup {inspectionId} |->
                  IF i = inspectionId THEN row ELSE liteInspections[i]]
          /\ liteLast' = [LiteResp("create", 201, "created") EXCEPT
                            !.id = inspectionId]
  /\ liteCreated' = liteCreated + 1
  /\ UNCHANGED <<emailQueue, run, isConfigured, hasMetadataColumn,
                 selections, deliveries, mailed>>
  /\ UNCHANGED <<mongoVars, limiterVars, envVars, appVars>>

\* PUT /:id: no validation of the body; status || inspection.status is written
LitePut ==
  /\ liteArrivals < MaxLiteArrivals
  /\ liteArrivals' = liteArrivals + 1
  /\ \E id \in LiteIds, status \in Statuses \cup {NoStatus},
        sendsPoints \in BOOLEAN, inspectionPoints \in Checklists :
       LET request == [NoLiteLast EXCEPT !.op = "put", !.id = id,
                                         !.status = status]
       IN IF id \notin DOMAIN liteInspections
            THEN /\ liteInspections' = liteInspections
                 /\ liteLast' = [request EXCEPT !.code = 404, !.kind = "notfound"]
          ELSE IF ~sendsPoints
            \* JSON.stringify(undefined) cannot be bound: the statement throws
            THEN /\ liteInspections' = liteInspections
                 /\ liteLast' = [request EXCEPT
                                   !.was = liteInspections[id].status,
                                   !.code = 500, !.kind = "update"]
          ELSE /\ liteInspections' =
                    [liteInspections EXCEPT
                       ![id].status = IF status # NoStatus THEN status ELSE @,
                       ![id].inspectionPoints = inspectionPoints,
                       ![id].completionPercentage = Percentage(inspectionPoints)]
               /\ liteLast' = [request EXCEPT
                                 !.was = liteInspections[id].status,
                                 !.code = 200, !.kind = "updated"]
  /\ UNCHANGED <<liteCreated, emailQueue, run, isConfigured, hasMetadataColumn,
                 selections, deliveries, mailed>>
  /\ UNCHANGED <<mongoVars, limiterVars, envVars, appVars>>

\* DELETE /:id
LiteDelete ==
  /\ liteArrivals < MaxLiteArrivals
  /\ liteArrivals' = liteArrivals + 1
  /\ \E id \in LiteIds :
       LET request == [NoLiteLast EXCEPT !.op = "delete", !.id = id]
       IN IF id \notin DOMAIN liteInspections
            THEN /\ liteInspections' = liteInspections
                 /\ liteLast' = [request EXCEPT !.code = 404, !.kind = "notfound"]
          ELSE IF Referenced(id)
            THEN /\ liteInspections' = liteInspections
                 /\ liteLast' = [request EXCEPT !.code = 500, !.kind = "delete"]
          ELSE /\ liteInspections' =
                    [i \in DOMAIN liteInspections \ {id} |-> liteInspections[i]]
               /\ liteLast' = [request EXCEPT !.code = 200, !.kind = "deleted"]
  /\ UNCHANGED <<liteCreated, emailQueue, run, isConfigured, hasMetadataColumn,
                 selections, deliveries, mailed>>
  /\ UNCHANGED <<mongoVars, limiterVars, envVars, appVars>>

\* DELETE /clear-all/all: DELETE FROM inspections is one statement
LiteClearAll ==
  /\ liteArrivals < MaxLiteArrivals
  /\ liteArrivals' = liteArrivals + 1
  /\ IF \E id \in DOMAIN liteInspections : Referenced(id)
       THEN /\ liteInspections' = liteInspections
            /\ liteLast' = LiteResp("clear", 500, "delete")
       ELSE /\ liteInspections' = <<>>
            /\ liteLast' = LiteResp("clear", 200, "deleted")
  /\ UNCHANGED <<liteCreated, emailQueue, run, isConfigured, hasMetadataColumn,
                 selections, deliveries, mailed>>
  /\ UNCHANGED <<mongoVars, limiterVars, envVars, appVars>>

\* ---------------------------------------------------------- /api/emails

\* POST /send-inspection without inspectionId or recipientEmail: the APIError
\* is thrown inside the handler's own try and answered by its catch
\* faulty variant: the failed figure is counted under a status no job ever has
getQueueStatsNoFailed ==
  LET count(status) ==
        Cardinality({j \in DOMAIN emailQueue : emailQueue[j].status = status})
  IN [pending |-> count("pending"), sent |-> count("sent"), failed |-> 0,
      total |-> count("pending") + count("sent")]

\* EmailQueueService.getQueueStats: three SELECT COUNT(*) ... WHERE status = ?
getQueueStats ==
  LET count(status) ==
        Cardinality({j \in DOMAIN emailQueue : emailQueue[j].status = status})
  IN [pending |-> count("pending"), sent |-> count("sent"),
      failed |-> count("failed"),
      total |-> count("pending") + count("sent") + count("failed")]

\* GET /queue-stats
QueueStats ==
  /\ liteArrivals < MaxLiteArrivals
  /\ liteArrivals' = liteArrivals + 1
  /\ LET stats == getQueueStats
     IN liteLast' = [LiteResp("stats", 200, "stats") EXCEPT
                       !.pending = stats.pending, !.sent = stats.sent,
                       !.failed = stats.failed, !.total = stats.total]
  /\ UNCHANGED <<liteInspections, liteCreated, emailQueue, run, isConfigured,
                 hasMetadataColumn, selections, deliveries, mailed>>
  /\ UNCHANGED <<mongoVars, limiterVars, envVars, appVars>>

SendInvalid ==
  /\ liteArrivals < MaxLiteArrivals
  /\ liteArrivals' = liteArrivals + 1
  /\ liteLast' = LiteResp("send", 500, "required")
  /\ UNCHANGED <<liteInspections, liteCreated, emailQueue, run, isConfigured,
                 hasMetadataColumn, selections, deliveries, mailed>>
  /\ UNCHANGED <<mongoVars, limiterVars, envVars, appVars>>

\* const metadata = options.metadata ? JSON.stringify(options.metadata) : null
queueMetadata(options) ==
  IF options.metadata # "undefined" THEN options.metadata ELSE "null"

\* processQueuedEmails: attachments = JSON.parse(email.metadata).attachments
\* || [] when the row has metadata; the mail gets them when there are any
metadataAttachments(metadata) == metadata = "attachments"

\* POST /send-inspection: the options carry the generated PDF or nothing, never
\* a metadata member; EmailService.sendEmail sends now when SMTP is configured
\* and reachable and otherwise calls EmailQueueService.queueEmail
SendInspectionRequest(pdfChoices) ==
  /\ liteArrivals < MaxLiteArrivals
  /\ liteArrivals' = liteArrivals + 1
  /\ \E inspectionId \in LiteIds, smtpOk \in BOOLEAN, pdf \in pdfChoices :
       LET request == [NoLiteLast EXCEPT !.op = "send", !.id = inspectionId]
           options == [attachments |-> pdf, metadata |-> "undefined"]
       IN IF isSmtpConfigured /\ smtpOk
            THEN /\ emailQueue' = emailQueue
                 /\ liteLast' = [request EXCEPT !.code = 200, !.kind = "sent"]
          ELSE IF ~hasMetadataColumn \/ inspectionId \notin DOMAIN liteInspections
            \* the INSERT names a missing column, or breaks the foreign key
            THEN /\ emailQueue' = emailQueue
                 /\ liteLast' = [request EXCEPT !.code = 500, !.kind = "queue"]
          ELSE /\ Len(emailQueue) < MaxJobs
               /\ emailQueue' = Append(emailQueue,
                                       [inspectionId |-> inspectionId,
                                        status |-> "pending",
                                        retryCount |-> 0,
                                        error |-> "none",
                                        metadata |-> queueMetadata(options),
                                        requestAttachments |->
                                          options.attachments])
               /\ liteLast' = [request EXCEPT !.code = 200, !.kind = "queued"]
  /\ UNCHANGED <<liteInspections, liteCreated, run, isConfigured,
                 hasMetadataColumn, selections, deliveries, mailed>>
  /\ UNCHANGED <<mongoVars, limiterVars, envVars, appVars>>

\* a send-inspection request without a PDF (includeAttachment false, or no
\* inspectionData or inspectionPoints in the body)
SendInspection == SendInspectionRequest({FALSE})

\* processQueuedEmails up to its first awaited sendMail
processQueuedEmails(w) ==
  /\ FreeRun(w)
  /\ \E limit \in Limits :
       LET pendingEmails == getPendingEmails(limit)
       IN IF ~isSmtpConfigured
            THEN /\ liteLast' = LiteResp("process", 200, "unconfigured")
                 /\ UNCHANGED <<run, selections>>
          ELSE IF Len(pendingEmails) = 0
            THEN /\ liteLast' = LiteResp("process", 200, "empty")
                 /\ UNCHANGED <<run, selections>>
          ELSE /\ run' = [run EXCEPT ![w] =
                            [pc |-> "sending", batch |-> pendingEmails,
                             selected |-> Len(pendingEmails),
                             sent |-> 0, failed |-> 0]]
               /\ selections' =
                    [j \in 1..MaxJobs |->
                       IF \E k \in DOMAIN pendingEmails : pendingEmails[k].emailId = j
                         THEN selections[j] + 1 ELSE selections[j]]
               /\ liteLast' = liteLast
  /\ UNCHANGED <<liteInspections, liteCreated, emailQueue, isConfigured,
                 hasMetadataColumn, deliveries, mailed>>
  /\ UNCHANGED <<mongoVars, limiterVars, envVars, appVars>>

\* POST /process-queue, one of the requests of a behaviour
ProcessStart(w) ==
  /\ liteArrivals < MaxLiteArrivals
  /\ liteArrivals' = liteArrivals + 1
  /\ processQueuedEmails(w)

\* POST /process-queue from a caller that keeps the dispatcher running
DispatcherRun(w) ==
  /\ liteArrivals' = liteArrivals
  /\ processQueuedEmails(w)

\* one turn of the loop: the awaited sendMail resolves or rejects, then markSent
\* or markFailed; after the last email the run answers { sent, failed }
ProcessDeliver(w) ==
  /\ run[w].pc = "sending"
  /\ liteArrivals' = liteArrivals
  /\ \E ok \in BOOLEAN :
       LET email == Head(run[w].batch)
           rest == Remaining(run[w].batch, ok)
           sent == IF ok THEN run[w].sent + 1 ELSE run[w].sent
           failed == IF ok THEN run[w].failed ELSE run[w].failed + 1
       IN /\ emailQueue' =
               IF ok
                 THEN markSent(emailQueue, email.emailId)
                 ELSE markFailed(emailQueue, email.emailId,
                                 IF email.retryCount < RetryCeiling
                                   THEN "smtp" ELSE "Max retries exceeded")
          /\ deliveries' = IF ok
                             THEN [deliveries EXCEPT ![email.emailId] = @ + 1]
                             ELSE deliveries
          /\ mailed' = IF ok
                         THEN [mailed EXCEPT ![email.emailId] =
                                 IF metadataAttachments(email.metadata)
                                   THEN "pdf" ELSE "plain"]
                         ELSE mailed
          /\ IF rest = <<>>
               THEN /\ run' = [run EXCEPT ![w] = IdleRun]
                    /\ liteLast' = [LiteResp("process", 200, "processed") EXCEPT
                                      !.sent = sent, !.failed = failed]
               ELSE /\ run' = [run EXCEPT ![w] = [@ EXCEPT !.batch = rest,
                                                          !.sent = sent,
                                                          !.failed = failed]]
                    /\ liteLast' = liteLast
  /\ UNCHANGED <<liteInspections, liteCreated, isConfigured, hasMetadataColumn,
                 selections>>
  /\ UNCHANGED <<mongoVars, limiterVars, envVars, appVars>>

\* the server starts on its database file; SMTP_* may or may not be set, and
\* CREATE TABLE IF NOT EXISTS keeps the email_queue table the file already has
InitLite ==
  /\ MongoInit
  /\ LimiterInit
  /\ AppInit
  /\ \E configured \in BOOLEAN, metadataColumn \in BOOLEAN :
       LiteStart(configured, metadataColumn)

\* the email routes with SMTP configured, on a table that accepts the insert,
\* and a dispatcher that is run again and again
InitDispatch ==
  /\ MongoInit
  /\ LimiterInit
  /\ AppInit
  /\ LiteStart(TRUE, TRUE)

NextDispatch ==
  \/ liteArrivals < MaxDispatchArrivals /\ LiteCreate({<<TRUE>>})
  \/ liteArrivals < MaxDispatchArrivals /\ SendInspection
  \/ \E w \in Dispatchers : DispatcherRun(w)
  \/ \E w \in Dispatchers : ProcessDeliver(w)

SpecDispatch ==
  /\ InitDispatch
  /\ [][NextDispatch]_vars
  /\ WF_vars(\E w \in Dispatchers : DispatcherRun(w))
  /\ \A w \in Dispatchers : WF_vars(ProcessDeliver(w))

\* the inspections routes
NextLite ==
  \/ LiteCreateInvalid
  \/ LiteCreate(Checklists)
  \/ LitePut
  \/ LiteDelete
  \/ LiteClearAll

SpecLite == InitLite /\ [][NextLite]_vars

\* the email routes, with the inspections routes that insert and delete the
\* rows the jobs reference (every row created from the same checklist)
NextQueue ==
  \/ LiteCreate({<<TRUE>>})
  \/ LiteDelete
  \/ LiteClearAll
  \/ SendInvalid
  \/ SendInspection
  \/ QueueStats
  \/ \E w \in Runs : ProcessStart(w)
  \/ \E w \in Runs : ProcessDeliver(w)

SpecQueue == InitLite /\ [][NextQueue]_vars

\* what a pushed smtpConfig can hold: nothing, host, user and password, or
\* an object that misses one of them
SmtpConfigs == {"none", "complete", "partial"}

\* POST /api/credentials/store: the credentials are kept in memory and the
\* SMTP_* variables of the process are set from smtpConfig; the EmailService
\* instance is left as its constructor made it
StoreCredentials ==
  /\ liteArrivals < MaxLiteArrivals
  /\ liteArrivals' = liteArrivals + 1
  /\ \E hasJwtSecret \in BOOLEAN, smtpConfig \in SmtpConfigs :
       IF ~hasJwtSecret
         THEN /\ liteLast' = LiteResp("store", 400, "jwt")
              /\ UNCHANGED <<storedCredentials, smtpEnv>>
         ELSE /\ storedCredentials' = TRUE
              /\ smtpEnv' = IF smtpConfig = "none" THEN smtpEnv
                            ELSE smtpConfig = "complete"
              /\ liteLast' = LiteResp("store", 200, smtpConfig)
  /\ UNCHANGED <<liteInspections, liteCreated, emailQueue, run, isConfigured,
                 hasMetadataColumn, selections, deliveries, mailed>>
  /\ UNCHANGED <<mongoVars, limiterVars, appVars>>

\* the email routes with requests that carry a PDF and requests that do
\* not, SMTP configured and a table that accepts the insert
NextAttach ==
  \/ LiteCreate({<<TRUE>>})
  \/ SendInspectionRequest(BOOLEAN)
  \/ \E w \in Dispatchers : ProcessStart(w)
  \/ \E w \in Dispatchers : ProcessDeliver(w)

SpecAttach == InitDispatch /\ [][NextAttach]_vars

\* the credentials route next to the email routes
NextConfigure ==
  \/ StoreCredentials
  \/ LiteCreate({<<TRUE>>})
  \/ SendInspection
  \/ \E w \in Dispatchers : ProcessStart(w)
  \/ \E w \in Dispatchers : ProcessDeliver(w)

SpecConfigure == InitLite /\ [][NextConfigure]_vars

\* ------------------------------------------------------ the rate limiter

\* faulty variant: the limit check written with > instead of >=
LimitExceededLate(validRequests) == Len(validRequests) > maxRequests

\* if (validRequests.length >= this.maxRequests)
LimitExceeded(validRequests) == Len(validRequests) >= maxRequests

\* requestTimes.filter((time) => now - time < this.windowMs)
ValidRequests(requestTimes, at) ==
  SelectSeq(requestTimes, LAMBDA time : at - time < windowMs)

\* time passes between two requests
Tick ==
  /\ dateNow < MaxNow
  /\ dateNow' = dateNow + 1
  /\ UNCHANGED <<requests, admitted, served, limiterLast>>
  /\ UNCHANGED <<mongoVars, liteVars, envVars, appVars>>

\* RateLimiter.middleware(): prune the key's list, then 429 or push and next()
Middleware(key) ==
  /\ served < MaxServed
  /\ served' = served + 1
  /\ LET validRequests == ValidRequests(requests[key], dateNow)
     IN IF LimitExceeded(validRequests)
          THEN /\ requests' = [requests EXCEPT ![key] = validRequests]
               /\ admitted' = admitted
               /\ limiterLast' = [key |-> key, code |-> 429]
          ELSE /\ requests' = [requests EXCEPT
                              ![key] = Append(validRequests, dateNow)]
               /\ admitted' = [admitted EXCEPT ![key] = Append(@, dateNow)]
               /\ limiterLast' = [key |-> key, code |-> 200]
  /\ dateNow' = dateNow
  /\ UNCHANGED <<mongoVars, liteVars, envVars, appVars>>

NextLimiter ==
  \/ Tick
  \/ \E key \in ClientKeys : Middleware(key)

SpecLimiter == Init /\ [][NextLimiter]_vars

\* ------------------------------------------- the embedded backend service

\* faulty variant: the loop written with <= instead of <
AttemptsLeftOneMore(polls) == polls <= maxAttempts

\* for (let i = 0; i < maxAttempts; i++)
AttemptsLeft(polls) == polls < maxAttempts

\* startBackend up to its first await: the started check, the development
\* fallback, nodejsMobile.start(...) and the entry of waitForBackendReady
\* (a start that spawned the process is what is counted)
StartBackend(c) ==
  /\ call[c].pc = "idle"
  /\ calls < MaxCalls
  /\ calls' = calls + 1
  /\ IF backendStarted
       THEN /\ backendLast' = [op |-> "start", result |-> "already", polls |-> 0]
            /\ UNCHANGED <<backendStarted, spawns, call>>
     ELSE IF ~isNativeModuleAvailable
       THEN /\ backendStarted' = TRUE
            /\ backendLast' = [op |-> "start", result |-> "fallback", polls |-> 0]
            /\ UNCHANGED <<spawns, call>>
     ELSE /\ spawns' = spawns + 1
          /\ call' = [call EXCEPT ![c] = [pc |-> "wait", polls |-> 0]]
          /\ UNCHANGED <<backendStarted, backendLast>>
  /\ UNCHANGED <<isNativeModuleAvailable, healthCheckInterval,
                 appStateSubscription, intervals, listeners, handles, restarts>>
  /\ UNCHANGED <<mongoVars, liteVars, limiterVars, envVars, credVars, viewVars>>

\* one turn of the loop of waitForBackendReady.  A good /health answer ends
\* the wait and startBackend runs on to its return; a bad one is followed by
\* the next turn or, when no attempt is left, by the throw and the catch.
Poll(c) ==
  /\ call[c].pc = "wait"
  /\ \E ok \in BOOLEAN :
       LET polls == call[c].polls + 1
       IN IF ok
            THEN /\ backendStarted' = TRUE
                 /\ healthCheckInterval' = handles + 1
                 /\ intervals' = intervals \cup {handles + 1}
                 /\ appStateSubscription' = handles + 2
                 /\ listeners' = listeners \cup {handles + 2}
                 /\ handles' = handles + 2
                 /\ call' = [call EXCEPT ![c] = IdleCall]
                 /\ backendLast' = [op |-> "start", result |-> "started",
                                    polls |-> polls]
                 /\ UNCHANGED restarts
          ELSE IF AttemptsLeft(polls)
            THEN /\ call' = [call EXCEPT ![c].polls = polls]
                 /\ UNCHANGED <<backendStarted, healthCheckInterval,
                                appStateSubscription, intervals, listeners,
                                handles, restarts, backendLast>>
          ELSE /\ restarts' = restarts + 1
               /\ call' = [call EXCEPT ![c] = IdleCall]
               /\ backendLast' = [op |-> "start", result |-> "failed",
                                  polls |-> polls]
               /\ UNCHANGED <<backendStarted, healthCheckInterval,
                              appStateSubscription, intervals, listeners, handles>>
  /\ UNCHANGED <<isNativeModuleAvailable, spawns, calls>>
  /\ UNCHANGED <<mongoVars, liteVars, limiterVars, envVars, credVars, viewVars>>

\* stopBackend(): clearInterval of the held handle, nodejsMobile.stop(), which
\* may throw, and backendStarted = false
stopBackend(op) ==
  /\ intervals' = intervals \ {healthCheckInterval}
  /\ healthCheckInterval' = 0
  /\ \E stopThrows \in BOOLEAN :
       IF isNativeModuleAvailable /\ stopThrows
         THEN /\ UNCHANGED <<backendStarted, spawns>>
              /\ backendLast' = [op |-> op, result |-> "error", polls |-> 0]
         ELSE /\ backendStarted' = FALSE
              /\ spawns' = 0
              /\ backendLast' = [op |-> op, result |-> "stopped", polls |-> 0]

StopBackend ==
  /\ stopBackend("stop")
  /\ UNCHANGED <<isNativeModuleAvailable, appStateSubscription, listeners,
                 handles, restarts, call, calls>>
  /\ UNCHANGED <<mongoVars, liteVars, limiterVars, envVars, credVars, viewVars>>

\* cleanup(): remove the held subscription, then stopBackend()
Cleanup ==
  /\ listeners' = listeners \ {appStateSubscription}
  /\ appStateSubscription' = 0
  /\ stopBackend("cleanup")
  /\ UNCHANGED <<isNativeModuleAvailable, handles, restarts, call, calls>>
  /\ UNCHANGED <<mongoVars, liteVars, limiterVars, envVars, credVars, viewVars>>

\* the service on a built app or on a development build
InitBackend ==
  /\ MongoInit
  /\ LiteStart(FALSE, FALSE)
  /\ LimiterInit
  /\ \E available \in BOOLEAN : BackendStart(available)
  /\ CredStart
  /\ ViewStart

NextBackend ==
  \/ \E c \in Callers : StartBackend(c)
  \/ \E c \in Callers : Poll(c)
  \/ StopBackend
  \/ Cleanup

\* every fetch ends within its 2 s abort timeout and every 1 s sleep ends
SpecBackend ==
  /\ InitBackend
  /\ [][NextBackend]_vars
  /\ \A c \in Callers : WF_vars(Poll(c))

\* ------------------------------------- the secure credentials service

\* if (!secret)
NothingRead(secret) == secret = 0

\* initialize() up to its first await: the initialized check and the cache
\* check of getJwtSecret
InitializeStart(i) ==
  /\ init[i].pc = "idle"
  /\ credCalls < MaxCredCalls
  /\ credCalls' = credCalls + 1
  /\ init' = IF initialized
               THEN init
             ELSE IF jwtSecret # 0
               THEN [init EXCEPT ![i] = [pc |-> "load", secret |-> jwtSecret]]
             ELSE [init EXCEPT ![i] = [pc |-> "read", secret |-> 0]]
  /\ UNCHANGED <<secureStoreJwt, jwtSecret, initialized, generated, clearing,
                 clearedSince>>
  /\ UNCHANGED <<mongoVars, liteVars, limiterVars, envVars, backendVars, viewVars>>

\* SecureStore.getItemAsync settles: getJwtSecret returns the item, or null
\* from its catch; initialize keeps a secret that was read and generates one
\* when it got none
InitializeRead(i) ==
  /\ init[i].pc = "read"
  /\ \E readFails \in BOOLEAN :
       LET secret == IF readFails THEN 0 ELSE secureStoreJwt
       IN IF NothingRead(secret)
            THEN /\ generated' = generated + 1
                 /\ init' = [init EXCEPT ![i] = [pc |-> "write",
                                                  secret |-> generated + 1]]
                 /\ UNCHANGED jwtSecret
            ELSE /\ jwtSecret' = secret
                 /\ init' = [init EXCEPT ![i] = [pc |-> "load", secret |-> secret]]
                 /\ UNCHANGED generated
  /\ UNCHANGED <<secureStoreJwt, initialized, credCalls, clearing, clearedSince>>
  /\ UNCHANGED <<mongoVars, liteVars, limiterVars, envVars, backendVars, viewVars>>

\* SecureStore.setItemAsync of setJwtSecret settles: the item is written and
\* cached, or the error is thrown on and initialize rejects
InitializeWrite(i) ==
  /\ init[i].pc = "write"
  /\ \E writeFails \in BOOLEAN :
       IF writeFails
         THEN /\ init' = [init EXCEPT ![i] = IdleInit]
              /\ UNCHANGED <<secureStoreJwt, jwtSecret, clearedSince>>
         ELSE /\ secureStoreJwt' = init[i].secret
              /\ jwtSecret' = init[i].secret
              /\ clearedSince' = clearing
              /\ init' = [init EXCEPT ![i].pc = "load"]
  /\ UNCHANGED <<initialized, generated, credCalls, clearing>>
  /\ UNCHANGED <<mongoVars, liteVars, limiterVars, envVars, backendVars, viewVars>>

\* loadSmtpConfig settles and initialize returns
InitializeLoad(i) ==
  /\ init[i].pc = "load"
  /\ initialized' = TRUE
  /\ init' = [init EXCEPT ![i] = IdleInit]
  /\ UNCHANGED <<secureStoreJwt, jwtSecret, generated, credCalls, clearing,
                 clearedSince>>
  /\ UNCHANGED <<mongoVars, liteVars, limiterVars, envVars, backendVars, viewVars>>

\* clearAllCredentials() up to its await of the deletes
ClearStart ==
  /\ ~clearing
  /\ clearing' = TRUE
  /\ clearedSince' = TRUE
  /\ UNCHANGED <<secureStoreJwt, jwtSecret, initialized, generated, init,
                 credCalls>>
  /\ UNCHANGED <<mongoVars, liteVars, limiterVars, envVars, backendVars, viewVars>>

\* the deletes settle (an error of a delete is swallowed by its catch) and
\* the cache is reset
ClearFinish ==
  /\ clearing
  /\ clearing' = FALSE
  /\ \E deleteFails \in BOOLEAN :
       secureStoreJwt' = IF deleteFails THEN secureStoreJwt ELSE 0
  /\ jwtSecret' = 0
  /\ initialized' = FALSE
  /\ UNCHANGED <<generated, init, credCalls, clearedSince>>
  /\ UNCHANGED <<mongoVars, liteVars, limiterVars, envVars, backendVars, viewVars>>

\* the app is closed and launched again: a new instance with an empty cache,
\* the SecureStore as it was
AppRestart ==
  /\ jwtSecret' = 0
  /\ initialized' = FALSE
  /\ init' = [i \in Initializers |-> IdleInit]
  /\ clearing' = FALSE
  /\ UNCHANGED <<secureStoreJwt, generated, credCalls, clearedSince>>
  /\ UNCHANGED <<mongoVars, liteVars, limiterVars, envVars, backendVars, viewVars>>

NextCredentials ==
  \/ \E i \in Initializers : InitializeStart(i)
  \/ \E i \in Initializers : InitializeRead(i)
  \/ \E i \in Initializers : InitializeWrite(i)
  \/ \E i \in Initializers : InitializeLoad(i)
  \/ ClearStart
  \/ ClearFinish
  \/ AppRestart

SpecCredentials == Init /\ [][NextCredentials]_vars

\* ----------------------------------------------------- the inspection view

\* toggleChecklistItem, handleFormChange, handleCheckboxChange: the user gives
\* the form another content; the alert of a finished submit is modal
Edit ==
  /\ submit.pc # "alert"
  /\ \E form \in Forms :
       /\ form # formData
       /\ formData' = form
  /\ awaitingEdit' = FALSE
  /\ UNCHANGED <<currentInspection, inspectionHistory, submit, submits>>
  /\ UNCHANGED <<mongoVars, liteVars, limiterVars, envVars, backendVars, credVars>>

\* the callback of the auto-save interval, which the effect registers again
\* with the state of every render: saveCurrentInspection(inspectionPoints,
\* formData) writes the current item
AutoSave ==
  /\ currentInspection' = formData
  /\ UNCHANGED <<formData, inspectionHistory, submit, submits, awaitingEdit>>
  /\ UNCHANGED <<mongoVars, liteVars, limiterVars, envVars, backendVars, credVars>>

\* submitInspection up to its first await: with a required field missing it
\* only shows an alert, otherwise it goes on with the state it was called in
SubmitStart ==
  /\ submit.pc = "idle"
  /\ submits < MaxSubmits
  /\ submits' = submits + 1
  /\ submit' = IF formData = DefaultForm
                 THEN submit
                 ELSE [pc |-> "backend", form |-> formData]
  /\ UNCHANGED <<formData, currentInspection, inspectionHistory, awaitingEdit>>
  /\ UNCHANGED <<mongoVars, liteVars, limiterVars, envVars, backendVars, credVars>>

\* the PDF, ApiService.createInspection and the e-mail attempts settle: a
\* failure of the first two ends the call in the error alert
SubmitBackend ==
  /\ submit.pc = "backend"
  /\ \E created \in BOOLEAN :
       submit' = IF created THEN [submit EXCEPT !.pc = "archive"] ELSE IdleSubmit
  /\ UNCHANGED <<formData, currentInspection, inspectionHistory, submits,
                 awaitingEdit>>
  /\ UNCHANGED <<mongoVars, liteVars, limiterVars, envVars, backendVars, credVars>>

\* StorageService.completeInspection settles: one entry pushed to the
\* history, the current item removed, and the success alert is shown; a
\* storage error ends the call in the error alert
SubmitArchive ==
  /\ submit.pc = "archive"
  /\ \E archived \in BOOLEAN :
       IF archived
         THEN /\ inspectionHistory' = Append(inspectionHistory, submit.form)
              /\ currentInspection' = NoDraft
              /\ awaitingEdit' = TRUE
              /\ submit' = [submit EXCEPT !.pc = "alert"]
         ELSE /\ submit' = IdleSubmit
              /\ UNCHANGED <<inspectionHistory, currentInspection, awaitingEdit>>
  /\ UNCHANGED <<formData, submits>>
  /\ UNCHANGED <<mongoVars, liteVars, limiterVars, envVars, backendVars, credVars>>

\* the OK button of the success alert: the form goes back to the defaults
AlertOk ==
  /\ submit.pc = "alert"
  /\ formData' = DefaultForm
  /\ submit' = IdleSubmit
  /\ UNCHANGED <<currentInspection, inspectionHistory, submits, awaitingEdit>>
  /\ UNCHANGED <<mongoVars, liteVars, limiterVars, envVars, backendVars, credVars>>

\* the Download PDF button of the success alert: the form is left as it is
AlertDownload ==
  /\ submit.pc = "alert"
  /\ submit' = IdleSubmit
  /\ UNCHANGED <<formData, currentInspection, inspectionHistory, submits,
                 awaitingEdit>>
  /\ UNCHANGED <<mongoVars, liteVars, limiterVars, envVars, backendVars, credVars>>

NextView ==
  \/ Edit
  \/ AutoSave
  \/ SubmitStart
  \/ SubmitBackend
  \/ SubmitArchive
  \/ AlertOk
  \/ AlertDownload

SpecView == Init /\ [][NextView]_vars

\* ================================================================ claims
\* ------------------------------------------------------------------- C1
\* C1: a schema-valid create-submission whose idempotency key is carried by a
\* stored document is answered 200 isDuplicate=true with that document, never
\* reaches the create path, and its step leaves the collection (documents and
\* their audit logs) and the storage bucket untouched; the collection still
\* holds exactly one document with that key.
C1_DuplicateEcho ==
  [][\A k \in Keys :
       (\E i \in DOMAIN inspections : inspections[i].idempotencyKey = k) =>
         /\ Cardinality({i \in DOMAIN inspections' :
                           inspections'[i].idempotencyKey = k}) = 1
         /\ \A r \in Slots :
              (req[r].pc = "idle" /\ req'[r].op = "post") => req'[r].key # k
         /\ ( /\ arrivals' = arrivals + 1
              /\ req' = req
              /\ last'.op = "post"
              /\ last'.key = k
              /\ last'.resp.kind # "validation" )
            => /\ last'.resp.kind = "duplicate"
               /\ last'.resp.code = 200
               /\ last'.resp.id \in DOMAIN inspections
               /\ inspections[last'.resp.id].idempotencyKey = k
               /\ inspections' = inspections
               /\ storage' = storage]_vars

\* a second submission with the stored key and a different payload was echoed
C1_Witness ==
  /\ last.op = "post"
  /\ last.resp.kind = "duplicate"
  /\ last.resp.id \in DOMAIN inspections
  /\ inspections[last.resp.id].idempotencyKey = last.key
  /\ inspections[last.resp.id].payload # last.payload
  /\ Len(inspections[last.resp.id].auditLog) = 1

\* ------------------------------------------------------------------- C2
\* C2: in every reachable state, whatever the interleaving of concurrent
\* create-submissions, at most one stored document carries a given key.
C2_UniqueKey ==
  \A k \in Keys :
    Cardinality({i \in DOMAIN inspections : inspections[i].idempotencyKey = k}) <= 1

\* two submissions with one key both passed the lookup; the second save collided
C2_Witness ==
  /\ last.op = "post"
  /\ last.resp.kind = "dupkey"
  /\ Cardinality({i \in DOMAIN inspections :
                    inspections[i].idempotencyKey = last.key}) = 1

\* ------------------------------------------------------------------- C3
\* C3: a create-submission that loses the race at the uniqueness constraint is
\* not answered with an error: it gets the winner's document, isDuplicate=true.
C3_LoserEchoesWinner ==
  (last.op = "post" /\ last.key # NoKey
     /\ last.resp.kind \notin {"validation", "upload"})
  => last.resp.kind \in {"created", "duplicate"}

\* ------------------------------------------------------------------- C4
\* C4: an update that reaches the stored row (SQLite backend) and asks for a
\* status `to` different from the row's status `from`, with from -> to not in
\* the transition table, is answered with the transition error and the row
\* still has status `from`.
C4_InvalidTransitionRejected ==
  ( /\ liteLast.op = "put"
    /\ liteLast.kind \notin {"notfound", "update"}
    /\ liteLast.status # NoStatus
    /\ liteLast.was # NoStatus
    /\ liteLast.status # liteLast.was
    /\ liteLast.status \notin validTransitions[liteLast.was] )
  => /\ liteLast.kind = "transition"
     /\ liteLast.code = 400
     /\ liteInspections[liteLast.id].status = liteLast.was

\* ------------------------------------------------------------------- C5
\* C5: a schema-valid update that asks for an allowed target status is accepted
\* and the stored status equals the requested target afterwards.
C5_AllowedTransitionApplied ==
  ( /\ last.op = "put"
    /\ last.resp.kind \notin {"validation", "notfound", "upload", "version"}
    /\ last.status # NoStatus
    /\ last.was # NoStatus
    /\ last.status # last.was
    /\ last.status \in validTransitions[last.was] )
  => /\ last.resp.kind = "updated"
     /\ inspections[last.id].status = last.status

C7_AuditLogAppendOnly ==
  [][\A i \in DOMAIN inspections :
       /\ i \in DOMAIN inspections'
       /\ IsPrefix(inspections[i].auditLog, inspections'[i].auditLog)]_vars

\* created, attachment replaced (two more entries), then a duplicate submission
C7_Witness ==
  /\ last.resp.kind = "duplicate"
  /\ last.resp.id \in DOMAIN inspections
  /\ LET log == inspections[last.resp.id].auditLog
     IN /\ Len(log) = 3
        /\ log[1].action = "created"
        /\ log[2].action = "pdf_updated"
        /\ log[3].action = "modified"

\* ------------------------------------------------------------------- C8
\* the statuses an audit entry records ({action, timestamp, status, ...})
StatusesRecorded(entry) == {entry.status}

\* C8: an accepted status update appends an entry that records the source
\* status and the requested target status.
C8_AuditRecordsTransition ==
  (last.op = "put" /\ last.resp.kind = "updated" /\ last.status # NoStatus)
  => LET log == inspections[last.id].auditLog
     IN {last.was, last.status} \subseteq StatusesRecorded(log[Len(log)])

C13_RetryCountMonotone ==
  [][/\ \A j \in DOMAIN emailQueue :
          /\ j \in DOMAIN emailQueue'
          /\ LET attempted == \E w \in Runs : /\ run[w].pc = "sending"
                                              /\ run'[w] # run[w]
                                              /\ Head(run[w].batch).emailId = j
                 rejected == attempted /\ deliveries'[j] = deliveries[j]
             IN emailQueue'[j].retryCount =
                  IF rejected THEN emailQueue[j].retryCount + 1
                              ELSE emailQueue[j].retryCount
     /\ \A j \in DOMAIN emailQueue' \ DOMAIN emailQueue :
          emailQueue'[j].retryCount = 0]_vars

\* two overlapping runs failed the job, a third one delivered it
C13_Witness ==
  \E j \in DOMAIN emailQueue :
    /\ emailQueue[j].retryCount = 2
    /\ emailQueue[j].status = "sent"
    /\ deliveries[j] = 1

C15_NoOrphanJobs ==
  \A j \in DOMAIN emailQueue :
    emailQueue[j].inspectionId \in DOMAIN liteInspections

\* a delete (by id or clear-all) of a record that a queued job references
\* was refused
C15_Witness ==
  /\ liteLast.op \in {"delete", "clear"}
  /\ liteLast.kind = "delete"
  /\ emailQueue # <<>>
  /\ \A j \in DOMAIN emailQueue :
       emailQueue[j].inspectionId \in DOMAIN liteInspections

\* ------------------------------------------------------------------ C16
\* C16: while the mail channel is unconfigured a dispatcher run answers
\* sent = 0, failed = 0, and no step selects, attempts or changes any job.
C16_UnconfiguredShortCircuit ==
  /\ []((~isConfigured /\ liteLast.op = "process")
          => /\ liteLast.kind = "unconfigured"
             /\ liteLast.sent = 0
             /\ liteLast.failed = 0)
  /\ [][~isConfigured =>
          /\ run' = run
          /\ selections' = selections
          /\ deliveries' = deliveries
          /\ \A j \in DOMAIN emailQueue :
               j \in DOMAIN emailQueue' /\ emailQueue'[j] = emailQueue[j]]_vars

\* a run was started on an unconfigured service while a job was pending
C16_Witness ==
  /\ ~isConfigured
  /\ liteLast.op = "process"
  /\ liteLast.kind = "unconfigured"
  /\ \E j \in DOMAIN emailQueue :
       emailQueue[j].status = "pending" /\ emailQueue[j].retryCount = 0

C18_OldestFirst ==
  /\ [](\A limit \in Limits :
          LET b == getPendingEmails(limit)
              ids == {b[k].emailId : k \in DOMAIN b}
          IN /\ Len(b) <= limit
             /\ \A k \in DOMAIN b :
                  /\ b[k].emailId \in DOMAIN emailQueue
                  /\ emailQueue[b[k].emailId].status = "pending"
             /\ \A k \in DOMAIN b :
                  k < Len(b) => b[k].emailId < b[k + 1].emailId
             /\ \A j \in DOMAIN emailQueue :
                  (emailQueue[j].status = "pending" /\ j \notin ids)
                  => (Len(b) = limit /\ \A i \in ids : i < j))
  /\ [][\A w \in Runs :
          (run[w].pc = "idle" /\ run'[w].pc = "sending")
          => \E limit \in Limits : run'[w].batch = getPendingEmails(limit)]_vars

\* two jobs pending, a run started with limit 1 holds the older one only
C18_Witness ==
  /\ Len(emailQueue) = 2
  /\ emailQueue[1].status = "pending"
  /\ emailQueue[2].status = "pending"
  /\ selections = [j \in 1..MaxJobs |-> IF j = 1 THEN 1 ELSE 0]
  /\ \E w \in Runs : /\ run[w].pc = "sending"
                     /\ run[w].selected = 1
                     /\ Head(run[w].batch).emailId = 1

\* ------------------------------------------------------------------ C19
\* C19: a notification request for a stored record, on a queue table that
\* accepts the insert, is answered by enqueueing a job and never by a
\* delivery made within the request.
C19_NotifyOnlyEnqueues ==
  ( /\ liteLast.op = "send"
    /\ liteLast.kind # "required"
    /\ liteLast.id \in DOMAIN liteInspections
    /\ hasMetadataColumn )
  => liteLast.kind = "queued"

\* ------------------------------------------------------------------ C20
\* C20: a create-submission that reaches the upload of its document is
\* answered with the created record even when the upload fails.
C20_UploadFailureTolerated ==
  (last.op = "post" /\ last.resp.kind \notin {"validation", "duplicate", "dupkey"})
  => /\ last.resp.kind = "created"
     /\ last.resp.id \in DOMAIN inspections

\* ------------------------------------------------------------------ C21
\* C21: when an update replaces the attachment and the old blob, still in
\* storage, cannot be deleted, the handler goes on to upload the new blob.
C21_DeleteFailureTolerated ==
  [][\A r \in Slots :
       ( /\ req[r].op = "put" /\ req[r].pc = "deleteOld"
         /\ req'[r] # req[r]
         /\ req[r].doc.pdfStoragePath \in storage
         /\ storage' = storage )
       => req'[r].pc = "upload"]_vars

\* ------------------------------------------------------------------ C22
\* C22: a stored attachment reference changes only in the save of an update
\* whose upload succeeded, to the uploaded path; an update whose storage call
\* fails ends there with an error and leaves every stored record (reference,
\* status, audit log) as it was.
C22_ReferenceFollowsUpload ==
  [][/\ \A i \in DOMAIN inspections :
          inspections'[i].pdfStoragePath # inspections[i].pdfStoragePath
          => \E r \in Slots :
               /\ req[r].op = "put" /\ req[r].pc = "save" /\ req[r].id = i
               /\ req[r].pdfPath # NoFile
               /\ req[r].pdfPath = inspections'[i].pdfStoragePath
     /\ \A r \in Slots :
          ( /\ req[r].op = "put" /\ req[r].pc \in {"deleteOld", "upload"}
            /\ req'[r] # req[r]
            /\ storage' = storage
            /\ req[r].pc = "deleteOld" => req[r].doc.pdfStoragePath \in storage )
          => /\ req'[r] = IdleReq
             /\ last'.resp.code = 500
             /\ inspections' = inspections]_vars

\* an update of a record without attachment failed at its upload while the
\* path was free, and the record still has no attachment and no pdf_updated
\* audit entry
C22_Witness ==
  /\ last.op = "put" /\ last.resp.kind = "upload"
  /\ last.id \in DOMAIN inspections
  /\ inspections[last.id].pdfStoragePath = NoFile
  /\ \A k \in DOMAIN inspections[last.id].auditLog :
       inspections[last.id].auditLog[k].action # "pdf_updated"
  /\ storage = {}

\* ------------------------------------------------------------------ C23
\* C23: every stored attachment reference is empty or names a blob that is
\* in storage.
C23_NoDanglingAttachment ==
  \A i \in DOMAIN inspections :
    \/ inspections[i].pdfStoragePath = NoFile
    \/ inspections[i].pdfStoragePath \in storage

\* ------------------------------------------------------------------ C27
\* C27: a submission without idempotency key is never answered from a stored
\* record or refused for its key, and its save always adds a new record with
\* a fresh id, whatever records with the same payload are already stored.
C27_KeylessAlwaysCreates ==
  /\ []( (last.op = "post" /\ last.key = NoKey)
         => last.resp.kind \in {"validation", "upload", "created"} )
  /\ [][\A r \in Slots :
          ( /\ req[r].op = "post" /\ req[r].pc = "save" /\ req[r].key = NoKey
            /\ req'[r] # req[r] )
          => /\ Len(inspections') = Len(inspections) + 1
             /\ \A i \in DOMAIN inspections : inspections'[i] = inspections[i]
             /\ inspections'[Len(inspections')].payload = req[r].payload
             /\ last'.resp.kind = "created"
             /\ last'.resp.id = Len(inspections')]_vars

\* two stored records with the same payload and no key, the second one just
\* created by a keyless submission
C27_Witness ==
  /\ Len(inspections) = 2
  /\ inspections[1].idempotencyKey = NoKey
  /\ inspections[2].idempotencyKey = NoKey
  /\ inspections[1].payload = inspections[2].payload
  /\ last.op = "post" /\ last.key = NoKey
  /\ last.resp.kind = "created" /\ last.resp.id = 2

\* ------------------------------------------------------------------ C24
\* C24: the stored completion value of every record is the rounded percentage
\* of checked items of its stored checklist and lies between 0 and 100.
C24_CompletionDerived ==
  \A i \in DOMAIN liteInspections :
    LET points == liteInspections[i].inspectionPoints
        n == Len(points)
        checked == Cardinality({k \in DOMAIN points : points[k]})
        stored == liteInspections[i].completionPercentage
    IN /\ stored \in 0..100
       /\ 2 * n * stored <= 200 * checked + n
       /\ 200 * checked + n < 2 * n * (stored + 1)

\* ------------------------------------------------------------------ C25
\* C25: the stored checklist of every record is non-empty.
C25_ChecklistNonEmpty ==
  \A i \in DOMAIN liteInspections :
    Len(liteInspections[i].inspectionPoints) > 0

\* ------------------------------------------------------------------ C26
\* C26: a step in which a job becomes failed changes no inspection record,
\* and the failed figure answered by the queue statistics is the number of
\* failed jobs in the queue.
C26_FailureLeavesRecord ==
  [][/\ ( \E j \in DOMAIN emailQueue :
            /\ emailQueue[j].status # "failed"
            /\ emailQueue'[j].status = "failed" )
        => liteInspections' = liteInspections
     /\ (liteLast'.op = "stats" /\ liteLast' # liteLast)
        => /\ liteLast'.failed =
                Cardinality({j \in DOMAIN emailQueue :
                               emailQueue[j].status = "failed"})
           /\ liteLast'.total = Len(emailQueue)]_vars

\* the statistics were read while a job of a stored draft record was failed
C26_Witness ==
  /\ liteLast.op = "stats" /\ liteLast.failed >= 1
  /\ \E j \in DOMAIN emailQueue :
       /\ emailQueue[j].status = "failed"
       /\ emailQueue[j].inspectionId \in DOMAIN liteInspections
       /\ liteInspections[emailQueue[j].inspectionId].status = "draft"

\* ------------------------------------------------------------------ C28
\* joi.object({...}) without unknown(true): a body is accepted only when it
\* has no key outside the schema, and `status` is not a key of the schema
inspectionSchemaAllows(status) == status = NoStatus

\* C28: an update of a stored record whose body the schema rejects is
\* answered with a validation error and changes nothing.
C28_InvalidUpdateRejected ==
  ( /\ liteLast.op = "put"
    /\ liteLast.kind # "notfound"
    /\ ~inspectionSchemaAllows(liteLast.status) )
  => /\ liteLast.code = 400
     /\ liteLast.kind = "validation"

\* ------------------------------------------------------------------ C29
\* C29: a send-inspection request that names a stored inspection and a
\* recipient is answered either as delivered or as queued.
C29_DeliveredOrQueued ==
  ( /\ liteLast.op = "send"
    /\ liteLast.kind # "required"
    /\ liteLast.id \in DOMAIN liteInspections )
  => liteLast.kind \in {"sent", "queued"}

\* ------------------------------------------------------------------ C30
\* C30: for every client key and every window of windowMs, at most
\* maxRequests requests of that key were admitted inside the window; and a
\* request arriving while its key has maxRequests admitted requests inside
\* the window that ends now is answered 429 and is not admitted.
C30_AtMostMaxPerWindow ==
  /\ [](\A key \in ClientKeys, t \in 0..MaxNow :
          Cardinality({i \in DOMAIN admitted[key] :
                         /\ t - admitted[key][i] < windowMs
                         /\ admitted[key][i] <= t}) <= maxRequests)
  /\ [][served' # served
        => LET key == limiterLast'.key
               inWindow == {i \in DOMAIN admitted[key] :
                              dateNow - admitted[key][i] < windowMs}
           IN Cardinality(inWindow) >= maxRequests
              => /\ limiterLast'.code = 429
                 /\ admitted' = admitted]_vars

\* a key that was admitted more than maxRequests times over several windows
\* has just been rejected
C30_Witness ==
  /\ limiterLast.code = 429
  /\ Len(admitted[limiterLast.key]) > maxRequests
  /\ Len(requests[limiterLast.key]) = maxRequests

C32_ConfiguredAfterPush ==
  (storedCredentials /\ smtpEnv) => isSmtpConfigured

\* ------------------------------------------------------------------ C33
\* C33: between a stop and the next start the Node process is spawned at
\* most once: a startBackend call made while the backend is started, or
\* while another call still waits for readiness, does not call
\* nodejsMobile.start again.
C33_SpawnedAtMostOnce == spawns <= 1

\* ------------------------------------------------------------------ C34
\* C34: waitForBackendReady ends: a good /health answer ends it at once, and
\* otherwise it throws after exactly maxAttempts polls; the throw makes
\* startBackend reject with restarts incremented by one, backendStarted left
\* as it was and no health-check interval or app-state listener installed.
C34_WaitEnds ==
  /\ [](\A c \in Callers : call[c].pc = "wait" => call[c].polls < maxAttempts)
  /\ [][\A c \in Callers :
          (call[c].pc = "wait" /\ call'[c].pc = "idle")
          => \/ /\ backendLast'.result = "started"
                /\ backendLast'.polls = call[c].polls + 1
                /\ backendStarted'
             \/ /\ backendLast'.result = "failed"
                /\ backendLast'.polls = maxAttempts
                /\ call[c].polls + 1 = maxAttempts
                /\ restarts' = restarts + 1
                /\ UNCHANGED <<backendStarted, healthCheckInterval,
                               appStateSubscription, intervals, listeners>>]_vars
  /\ \A c \in Callers : (call[c].pc = "wait") ~> (call[c].pc = "idle")

\* a start that gave up: every poll failed, nothing is installed
C34_Witness ==
  /\ backendLast.result = "failed"
  /\ backendLast.polls = maxAttempts
  /\ restarts = 1
  /\ ~backendStarted
  /\ intervals = {}
  /\ listeners = {}

\* ------------------------------------------------------------------ C35
\* C35: initialize generates a JWT secret only when none is stored: a stored
\* secret is never replaced by another one unless clearAllCredentials was
\* called since it was stored, whatever initialize calls, app restarts and
\* failing secure-store reads happen.
C35_StoredSecretKept ==
  [][(secureStoreJwt # 0 /\ secureStoreJwt' # secureStoreJwt) => clearedSince]_vars

C37_NoDraftAfterComplete ==
  awaitingEdit => currentInspection = NoDraft

\* ------------------------------------------------------------------ C38
\* C38: after any sequence of startBackend, stopBackend and cleanup calls at
\* most one health-check interval and at most one app-state listener are
\* active, an interval is active only while backendStarted is true, and
\* after cleanup none of them is active.
C38_OneIntervalOneListener ==
  /\ Cardinality(intervals) <= 1
  /\ Cardinality(listeners) <= 1
  /\ (intervals # {} => backendStarted)
  /\ (backendLast.op = "cleanup" => intervals = {} /\ listeners = {})

====
